---- MODULE Spec2Model ----
(***************************************************************************)
(* Request handlers of the remix-jokes application: the "new joke" route   *)
(* action and the "login" route action, with the redirect-target           *)
(* validator and the field validators they use.                            *)
(*                                                                         *)
(* A handler is an async function: it runs without interruption from one   *)
(* await of a collaborator (session, joke store, identity store) to the    *)
(* next, and other requests may run in between.  Each such stretch is one  *)
(* action of the model.  The collaborators live in utils/session.server    *)
(* and utils/db.server and are modelled by their interfaces.               *)
(***************************************************************************)
EXTENDS Integers, Sequences, FiniteSets, TLC

VARIABLES
    jreq,       \* new-joke requests: one record per request slot
    jokes,      \* JokeStore: the sequence of created jokes
    nRedirects,   \* number of new-joke requests answered with a redirect so far
    areq,       \* login/register requests: one record per request slot
    users       \* IdentityStore: the sequence of users

vars == <<jreq, jokes, nRedirects, areq, users>>
jokeVars == <<jreq, jokes, nRedirects>>
authVars == <<areq, users>>

(***************************************************************************)
(* Bounds of the model.                                                    *)
(***************************************************************************)
MaxJokes == 2       \* jokes the store accepts before the model stops creating
MaxUsers == 3       \* users the store holds before the model stops creating
MaxUrlParts == 3    \* pieces a redirect target is put together from

(***************************************************************************)
(* JavaScript values.  A form entry, an optional message or an optional    *)
(* payload key is a string, null or undefined.                             *)
(***************************************************************************)
Str(s) == [kind |-> "string", val |-> s]
Null == [kind |-> "null", val |-> ""]
Undefined == [kind |-> "undefined", val |-> ""]
FileEntry == [kind |-> "file", val |-> ""]

\* typeof x === 'string'
IsString(x) == x.kind = "string"

\* Boolean(x) for an optional message
Truthy(x) == IsString(x) /\ x.val # ""

(***************************************************************************)
(* Responses.  A key that the payload does not have is Undefined.          *)
(***************************************************************************)
JsonResponse(status, formError, fieldErrors, fields) ==
    [status |-> status, formError |-> formError, fieldErrors |-> fieldErrors,
     fields |-> fields, location |-> Undefined, session |-> Undefined]

RedirectResponse(location, session) ==
    [status |-> 302, formError |-> Undefined, fieldErrors |-> Undefined,
     fields |-> Undefined, location |-> Str(location), session |-> session]

\* new Response('Unauthorized', {status: 401}), thrown by the session helper
Unauthorized == JsonResponse(401, Undefined, Undefined, Undefined)

NoResponse == JsonResponse(0, Undefined, Undefined, Undefined)

(***************************************************************************)
(* New-joke route.                                                         *)
(***************************************************************************)
\* Mutant: the length test is off by one.
validateJokeName_OffByOne(name) ==
    IF Len(name.val) <= 3 THEN Str("That joke's name is too short") ELSE Undefined

validateJokeName(name) ==
    IF Len(name.val) < 3 THEN Str("That joke's name is too short") ELSE Undefined

validateJokeContent(content) ==
    IF Len(content.val) < 10 THEN Str("That joke is too short") ELSE Undefined

\* const badRequest = (data) => json(data, {status: 400})
badRequest(formError, fieldErrors, fields) ==
    JsonResponse(400, formError, fieldErrors, fields)

\* Mutant: only the name's error stops the submission.
JokeFormOutcome_NameOnly(name, content) ==
    IF ~IsString(name) \/ ~IsString(content)
    THEN badRequest(Str("Form not submitted correctly."), Undefined, Undefined)
    ELSE LET fieldErrors == [name |-> validateJokeName(name),
                             content |-> validateJokeContent(content)]
             fields == [name |-> name, content |-> content]
         IN  IF Truthy(fieldErrors.name)
             THEN badRequest(Undefined, fieldErrors, fields)
             ELSE NoResponse

\* The part of the action between reading the form and the create call: the
\* rejection it returns, or NoResponse when the submission goes on to the store.
JokeFormOutcome(name, content) ==
    IF ~IsString(name) \/ ~IsString(content)
    THEN badRequest(Str("Form not submitted correctly."), Undefined, Undefined)
    ELSE LET fieldErrors == [name |-> validateJokeName(name),
                             content |-> validateJokeContent(content)]
             fields == [name |-> name, content |-> content]
         IN  IF Truthy(fieldErrors.name) \/ Truthy(fieldErrors.content)
             THEN badRequest(Undefined, fieldErrors, fields)
             ELSE NoResponse

\* SessionService.requireUserId: it returns the user id of the request's
\* session, or throws the 401 response when the session names nobody.
requireUserId(user) ==
    IF user = Null THEN [thrown |-> TRUE, value |-> Unauthorized]
    ELSE [thrown |-> FALSE, value |-> user]

JokeProcs == {"j1", "j2"}
SessionUsers == {Null, Str("u1")}
JokeNames == {Null, FileEntry, Str(""), Str("ab"), Str("abc")}
JokeContents == {Null, Str("123456789"), Str("1234567890"), Str("12345678901")}

IdleJoke ==
    [pc |-> "idle", user |-> Null, name |-> Null, content |-> Null,
     userId |-> Undefined, bodyRead |-> FALSE, validated |-> FALSE,
     creates |-> 0, resp |-> NoResponse]

\* A new-joke submission arrives: its session cookie resolves to user (or to
\* nobody) and its form holds name and content.
JokeRequest(p, user, name, content) ==
    /\ jreq[p].pc \in {"idle", "done"}
    /\ jreq' = [jreq EXCEPT ![p] = [IdleJoke EXCEPT !.pc = "requireUserId",
                    !.user = user, !.name = name, !.content = content]]
    /\ UNCHANGED <<jokes, nRedirects, authVars>>

\* Mutant: the form is read before the session is looked at.
JokeRequireUserId_FormFirst(p) ==
    /\ jreq[p].pc = "requireUserId"
    /\ LET userId == requireUserId(jreq[p].user)
       IN  jreq' = [jreq EXCEPT ![p] =
             IF userId.thrown
             THEN [@ EXCEPT !.pc = "done", !.resp = userId.value, !.bodyRead = TRUE]
             ELSE [@ EXCEPT !.pc = "formData", !.userId = userId.value,
                            !.bodyRead = TRUE]]
    /\ UNCHANGED <<jokes, nRedirects, authVars>>

\* const userId = await requireUserId(request)
JokeRequireUserId(p) ==
    /\ jreq[p].pc = "requireUserId"
    /\ LET userId == requireUserId(jreq[p].user)
       IN  jreq' = [jreq EXCEPT ![p] =
             IF userId.thrown
             THEN [@ EXCEPT !.pc = "done", !.resp = userId.value]
             ELSE [@ EXCEPT !.pc = "formData", !.userId = userId.value]]
    /\ UNCHANGED <<jokes, nRedirects, authVars>>

\* const form = await request.formData(), up to the await of db.joke.create
JokeReadForm(p) ==
    /\ jreq[p].pc = "formData"
    /\ LET name == jreq[p].name
           content == jreq[p].content
           out == JokeFormOutcome(name, content)
       IN  jreq' = [jreq EXCEPT ![p] =
             [@ EXCEPT !.bodyRead = TRUE,
                       !.validated = IsString(name) /\ IsString(content),
                       !.pc = IF out = NoResponse THEN "create" ELSE "done",
                       !.resp = out]]
    /\ UNCHANGED <<jokes, nRedirects, authVars>>

\* const joke = await db.joke.create(...); return redirect(`/jokes/${joke.id}`)
JokeCreate(p) ==
    /\ jreq[p].pc = "create"
    /\ Len(jokes) < MaxJokes
    /\ LET joke == [id |-> ToString(Len(jokes) + 1), name |-> jreq[p].name.val,
                    content |-> jreq[p].content.val,
                    jokesterId |-> jreq[p].userId.val]
       IN  /\ jokes' = Append(jokes, joke)
           /\ jreq' = [jreq EXCEPT ![p] =
                 [@ EXCEPT !.pc = "done", !.creates = @ + 1,
                           !.resp = RedirectResponse("/jokes/" \o joke.id, Undefined)]]
    /\ nRedirects' = nRedirects + 1
    /\ UNCHANGED authVars


(***************************************************************************)
(* Login route.                                                            *)
(***************************************************************************)
validateUsername(username) ==
    IF ~IsString(username) \/ Len(username.val) < 3
    THEN Str("Usernames must be at least 3 characters long") ELSE Undefined

\* Mutant: the length test is off by one.
validatePassword_OffByOne(password) ==
    IF ~IsString(password) \/ Len(password.val) < 5
    THEN Str("Passwords must be at least 6 characters long") ELSE Undefined

validatePassword(password) ==
    IF ~IsString(password) \/ Len(password.val) < 6
    THEN Str("Passwords must be at least 6 characters long") ELSE Undefined

\* let urls = ['/jokes', '/', 'https://remix.run']
urls == {"/jokes", "/", "https://remix.run"}

\* Mutant: any string is let through.
validateUrl_AnyString(url) ==
    LET u == IF url = Undefined THEN Str("/jokes") ELSE url
    IN  IF IsString(u) THEN u.val ELSE "/jokes"

\* The parameter defaults to '/jokes' when the argument is undefined;
\* Array.prototype.includes matches a string entry only by an equal string.
validateUrl(url) ==
    LET u == IF url = Undefined THEN Str("/jokes") ELSE url
    IN  IF IsString(u) /\ u.val \in urls THEN u.val ELSE "/jokes"

\* The part of the action between reading the form and the switch: the
\* rejection it returns, or NoResponse when the submission is dispatched.
AuthFormOutcome(loginType, username, password) ==
    IF ~IsString(loginType) \/ ~IsString(username) \/ ~IsString(password)
    THEN badRequest(Str("Form not submitted correctly."), Undefined, Undefined)
    ELSE LET fields == [loginType |-> loginType, username |-> username,
                        password |-> password]
             fieldErrors == [username |-> validateUsername(username),
                             password |-> validatePassword(password)]
         IN  IF Truthy(fieldErrors.username) \/ Truthy(fieldErrors.password)
             THEN badRequest(Undefined, fieldErrors, fields)
             ELSE NoResponse

\* Mutant: the switch has no default case of its own and ends in 'login'.
AuthDispatch_NoDefault(loginType) ==
    IF loginType.val = "register" THEN "Register" ELSE "Login"

\* switch (loginType): the case taken
AuthDispatch(loginType) ==
    IF loginType.val = "login" THEN "Login"
    ELSE IF loginType.val = "register" THEN "Register"
    ELSE "InvalidType"

\* IdentityStore.verifyCredentials: what login({username, password}) may return
login(username, password) ==
    LET found == {i \in 1..Len(users) : /\ users[i].username = username.val
                                        /\ users[i].password = password.val}
    IN  IF found = {} THEN {Null} ELSE {users[i] : i \in found}

\* IdentityStore.findUserByUsername: what db.user.findFirst may return
findFirst(username) ==
    LET found == {i \in 1..Len(users) : users[i].username = username.val}
    IN  IF found = {} THEN {Null} ELSE {users[i] : i \in found}

\* IdentityStore.createUser: the user register({username, password}) adds
NewUser(username, password) ==
    [kind |-> "user", id |-> ToString(Len(users) + 1),
     username |-> username.val, password |-> password.val]

\* SessionService.createSession: a redirect that carries the session cookie
createUserSession(userId, redirectTo) ==
    RedirectResponse(redirectTo, Str(userId))

AuthProcs == {"a1", "a2"}
SeqProcs == {"a1"}
LoginTypes == {Null, Str("login"), Str("register"), Str("signup")}
Usernames == {Null, Str("ab"), Str("bob"), Str("amy")}
Passwords == {Null, Str("12345"), Str("secret1"), Str("hunter22")}
RedirectInputs == {Null, FileEntry, Str(""), Str("/"), Str("/jokes"),
                   Str("https://remix.run"), Str("https://evil.example"),
                   Str("/jokes/"), Str("https://remix.run.evil.example")}
RaceLoginTypes == {Str("login"), Str("register"), Str("signup")}
RaceUsernames == {Str("ab"), Str("bob"), Str("amy")}
RacePasswords == {Str("secret1"), Str("hunter22")}

IdleAuth ==
    [pc |-> "idle", loginType |-> Null, username |-> Null, password |-> Null,
     rawRedirect |-> Null, redirectTo |-> "/jokes", branch |-> "none",
     calls |-> {}, userExists |-> Null, user |-> Null, resp |-> NoResponse]

\* A login-form submission arrives; the action runs from request.formData()
\* to the switch, where it returns or awaits login / db.user.findFirst.
AuthRequest(p, loginType, username, password, rawRedirect) ==
    /\ areq[p].pc \in {"idle", "done"}
    /\ LET redirectTo == validateUrl(rawRedirect)
           out == AuthFormOutcome(loginType, username, password)
           fields == [loginType |-> loginType, username |-> username,
                      password |-> password]
           branch == IF out = NoResponse THEN AuthDispatch(loginType) ELSE "none"
           r == [IdleAuth EXCEPT !.loginType = loginType, !.username = username,
                    !.password = password, !.rawRedirect = rawRedirect,
                    !.redirectTo = redirectTo, !.branch = branch]
       IN  areq' = [areq EXCEPT ![p] =
             CASE branch = "none" -> [r EXCEPT !.pc = "done", !.resp = out]
               [] branch = "Login" -> [r EXCEPT !.pc = "login"]
               [] branch = "Register" -> [r EXCEPT !.pc = "findFirst"]
               [] OTHER -> [r EXCEPT !.pc = "done",
                     !.resp = badRequest(Str("Login type invalid"), Undefined, fields)]]
    /\ UNCHANGED <<users, jokeVars>>

\* Mutant: a failed login says whether the username is known.
AuthLogin_Reveal(p) ==
    /\ areq[p].pc = "login"
    /\ \E user \in login(areq[p].username, areq[p].password) :
         LET a == areq[p]
             fields == [loginType |-> a.loginType, username |-> a.username,
                        password |-> a.password]
         IN  areq' = [areq EXCEPT ![p] =
               IF user = Null
               THEN [@ EXCEPT !.pc = "done", !.calls = @ \cup {"login"},
                       !.resp = badRequest(
                          IF findFirst(a.username) = {Null}
                          THEN Str("Username is incorrect.")
                          ELSE Str("Password is incorrect."),
                          Undefined, fields)]
               ELSE [@ EXCEPT !.pc = "done", !.user = user,
                       !.calls = @ \cup {"login", "createUserSession"},
                       !.resp = createUserSession(user.id, a.redirectTo)]]
    /\ UNCHANGED <<users, jokeVars>>

\* case 'login': const user = await login({username, password}) and what follows
AuthLogin(p) ==
    /\ areq[p].pc = "login"
    /\ \E user \in login(areq[p].username, areq[p].password) :
         LET a == areq[p]
             fields == [loginType |-> a.loginType, username |-> a.username,
                        password |-> a.password]
         IN  areq' = [areq EXCEPT ![p] =
               IF user = Null
               THEN [@ EXCEPT !.pc = "done", !.calls = @ \cup {"login"},
                       !.resp = badRequest(
                          Str("Username/Password combination is incorrect."),
                          Undefined, fields)]
               ELSE [@ EXCEPT !.pc = "done", !.user = user,
                       !.calls = @ \cup {"login", "createUserSession"},
                       !.resp = createUserSession(user.id, a.redirectTo)]]
    /\ UNCHANGED <<users, jokeVars>>

\* Mutant: an existing user is signed in instead of being turned away.
AuthFindFirst_SignIn(p) ==
    /\ areq[p].pc = "findFirst"
    /\ \E userExists \in findFirst(areq[p].username) :
         LET a == areq[p]
         IN  areq' = [areq EXCEPT ![p] =
               IF userExists # Null
               THEN [@ EXCEPT !.pc = "done", !.userExists = userExists,
                       !.calls = @ \cup {"findFirst", "createUserSession"},
                       !.resp = createUserSession(userExists.id, a.redirectTo)]
               ELSE [@ EXCEPT !.pc = "register", !.calls = @ \cup {"findFirst"}]]
    /\ UNCHANGED <<users, jokeVars>>

\* Mutant: the result of the existence check is not looked at.
AuthFindFirst_NoCheck(p) ==
    /\ areq[p].pc = "findFirst"
    /\ \E userExists \in findFirst(areq[p].username) :
         areq' = [areq EXCEPT ![p] =
            [@ EXCEPT !.pc = "register", !.userExists = userExists,
                      !.calls = @ \cup {"findFirst"}]]
    /\ UNCHANGED <<users, jokeVars>>

\* case 'register': const userExists = await db.user.findFirst({where: {username}})
AuthFindFirst(p) ==
    /\ areq[p].pc = "findFirst"
    /\ \E userExists \in findFirst(areq[p].username) :
         LET a == areq[p]
             fields == [loginType |-> a.loginType, username |-> a.username,
                        password |-> a.password]
         IN  areq' = [areq EXCEPT ![p] =
               IF userExists # Null
               THEN [@ EXCEPT !.pc = "done", !.calls = @ \cup {"findFirst"},
                       !.userExists = userExists,
                       !.resp = badRequest(
                          Str("User with username " \o a.username.val
                              \o " already exists"),
                          Undefined, fields)]
               ELSE [@ EXCEPT !.pc = "register", !.calls = @ \cup {"findFirst"}]]
    /\ UNCHANGED <<users, jokeVars>>

\* Mutant: the action looks the username up again before it creates the user.
AuthRegister_Recheck(p) ==
    /\ areq[p].pc = "register"
    /\ \E created \in BOOLEAN :
         LET a == areq[p]
             fields == [loginType |-> a.loginType, username |-> a.username,
                        password |-> a.password]
             taken == findFirst(a.username) # {Null}
             user == IF created THEN NewUser(a.username, a.password) ELSE Null
         IN  /\ created /\ ~taken => Len(users) < MaxUsers
             /\ users' = IF created /\ ~taken THEN Append(users, user) ELSE users
             /\ areq' = [areq EXCEPT ![p] =
                  IF taken
                  THEN [@ EXCEPT !.pc = "done",
                          !.resp = badRequest(
                             Str("User with username " \o a.username.val
                                 \o " already exists"),
                             Undefined, fields)]
                  ELSE IF user = Null
                  THEN [@ EXCEPT !.pc = "done", !.calls = @ \cup {"register"},
                          !.resp = badRequest(Str("Not implemented"), Undefined, fields)]
                  ELSE [@ EXCEPT !.pc = "done", !.user = user,
                          !.calls = @ \cup {"register", "createUserSession"},
                          !.resp = createUserSession(user.id, a.redirectTo)]]
    /\ UNCHANGED jokeVars

\* const user = await register({username, password}) and what follows; the
\* collaborator adds the user and returns it, or returns nothing.
AuthRegister(p) ==
    /\ areq[p].pc = "register"
    /\ \E created \in BOOLEAN :
         LET a == areq[p]
             fields == [loginType |-> a.loginType, username |-> a.username,
                        password |-> a.password]
             user == IF created THEN NewUser(a.username, a.password) ELSE Null
         IN  /\ created => Len(users) < MaxUsers
             /\ users' = IF created THEN Append(users, user) ELSE users
             /\ areq' = [areq EXCEPT ![p] =
                  IF user = Null
                  THEN [@ EXCEPT !.pc = "done", !.calls = @ \cup {"register"},
                          !.resp = badRequest(Str("Not implemented"), Undefined, fields)]
                  ELSE [@ EXCEPT !.pc = "done", !.user = user,
                          !.calls = @ \cup {"register", "createUserSession"},
                          !.resp = createUserSession(user.id, a.redirectTo)]]
    /\ UNCHANGED jokeVars

InitialUsers ==
    <<[kind |-> "user", id |-> "1", username |-> "bob", password |-> "secret1"]>>

Init ==
    /\ jreq = [p \in JokeProcs |-> IdleJoke]
    /\ jokes = <<>>
    /\ nRedirects = 0
    /\ areq = [p \in AuthProcs |-> IdleAuth]
    /\ users = InitialUsers

NextJoke ==
    \/ \E p \in JokeProcs, user \in SessionUsers, name \in JokeNames,
          content \in JokeContents : JokeRequest(p, user, name, content)
    \/ \E p \in JokeProcs : JokeRequireUserId(p)
    \/ \E p \in JokeProcs : JokeReadForm(p)
    \/ \E p \in JokeProcs : JokeCreate(p)

SpecJoke == Init /\ [][NextJoke]_vars

\* One login-form submission at a time, with every kind of form.
NextAuth ==
    \/ \E p \in SeqProcs, loginType \in LoginTypes, username \in Usernames,
          password \in Passwords, rawRedirect \in RedirectInputs :
          AuthRequest(p, loginType, username, password, rawRedirect)
    \/ \E p \in SeqProcs : AuthLogin(p)
    \/ \E p \in SeqProcs : AuthFindFirst(p)
    \/ \E p \in SeqProcs : AuthRegister(p)

SpecAuth == Init /\ [][NextAuth]_vars

\* Two login-form submissions in flight at once, each suspended at its awaits.
NextRace ==
    \/ \E p \in AuthProcs, loginType \in RaceLoginTypes, username \in RaceUsernames,
          password \in RacePasswords :
          AuthRequest(p, loginType, username, password, Null)
    \/ \E p \in AuthProcs : AuthLogin(p)
    \/ \E p \in AuthProcs : AuthFindFirst(p)
    \/ \E p \in AuthProcs : AuthRegister(p)

SpecRace == Init /\ [][NextRace]_vars

(***************************************************************************)
(* Properties of the new-joke route, checked under SpecJoke.               *)
(***************************************************************************)
JokeDone(p) == jreq[p].pc = "done"

\* The submission is one the action accepts.
JokeAcceptable(r) ==
    /\ r.user # Null
    /\ IsString(r.name) /\ IsString(r.content)
    /\ Len(r.name.val) >= 3 /\ Len(r.content.val) >= 10

\* C1: a request answered with a redirect made exactly one JokeStore create
\* call and was authenticated with a name of 3 or more and a content of 10 or
\* more characters; a request answered 400 or 401, and one not yet answered,
\* made none; the store holds one joke per redirect, and every joke in it has
\* name.length >= 3 and content.length >= 10.
C1_OneCreatePerRedirect ==
    /\ \A p \in JokeProcs :
         /\ JokeDone(p) => jreq[p].resp.status \in {302, 400, 401}
         /\ JokeDone(p) /\ jreq[p].resp.status = 302 =>
               jreq[p].creates = 1 /\ JokeAcceptable(jreq[p])
         /\ JokeDone(p) /\ jreq[p].resp.status \in {400, 401} =>
               jreq[p].creates = 0 /\ ~JokeAcceptable(jreq[p])
         /\ ~JokeDone(p) => jreq[p].creates = 0
    /\ Len(jokes) = nRedirects
    /\ \A i \in 1..Len(jokes) :
         Len(jokes[i].name) >= 3 /\ Len(jokes[i].content) >= 10

\* One request was answered with a redirect and one with a rejection, and the
\* store holds the one joke.
C1_Witness ==
    \E p, q \in JokeProcs :
        /\ JokeDone(p) /\ jreq[p].resp.status = 302
        /\ jreq[p].name = Str("abc") /\ jreq[p].content = Str("1234567890")
        /\ JokeDone(q) /\ jreq[q].resp.status = 400
        /\ Len(jokes) = 1 /\ jokes[1].name = "abc"

\* C3: a request whose session resolves to nobody never has its form read, its
\* fields validated or a joke created, and is answered with the 401 response
\* and nothing else.
C3_UnauthorizedBeforeForm ==
    \A p \in JokeProcs :
        jreq[p].pc # "idle" /\ jreq[p].user = Null =>
            /\ ~jreq[p].bodyRead
            /\ ~jreq[p].validated
            /\ jreq[p].creates = 0
            /\ jreq[p].pc \in {"requireUserId", "done"}
            /\ JokeDone(p) => jreq[p].resp = Unauthorized

\* An unauthenticated request with a form the action would accept was answered.
C3_Witness ==
    \E p \in JokeProcs :
        /\ JokeDone(p) /\ jreq[p].user = Null
        /\ jreq[p].name = Str("abc") /\ jreq[p].content = Str("1234567890")
        /\ jreq[p].resp.status = 401

\* C7: an authenticated submission with string name and content is rejected
\* with 400 exactly when name.length < 3 or content.length < 10; the payload
\* then has fieldErrors.name iff name.length < 3, fieldErrors.content iff
\* content.length < 10, the submitted name and content as fields, and no
\* formError.
C7_FieldErrors ==
    \A p \in JokeProcs :
        LET r == jreq[p]
            shortName == Len(r.name.val) < 3
            shortContent == Len(r.content.val) < 10
        IN  JokeDone(p) /\ r.user # Null /\ IsString(r.name) /\ IsString(r.content) =>
              /\ r.resp.status = 400 <=> (shortName \/ shortContent)
              /\ r.resp.status = 400 =>
                    /\ Truthy(r.resp.fieldErrors.name) <=> shortName
                    /\ Truthy(r.resp.fieldErrors.content) <=> shortContent
                    /\ ~shortName => r.resp.fieldErrors.name = Undefined
                    /\ ~shortContent => r.resp.fieldErrors.content = Undefined
                    /\ r.resp.fields = [name |-> r.name, content |-> r.content]
                    /\ r.resp.formError = Undefined

\* The scenario {name: "ab", content: "1234567890"}: only the name's error.
C7_Witness ==
    \E p \in JokeProcs :
        /\ JokeDone(p) /\ jreq[p].user # Null
        /\ jreq[p].name = Str("ab") /\ jreq[p].content = Str("1234567890")
        /\ jreq[p].resp.status = 400
        /\ Truthy(jreq[p].resp.fieldErrors.name)
        /\ jreq[p].resp.fieldErrors.content = Undefined
        /\ jokes = <<>>

(***************************************************************************)
(* Properties of the login route, checked under SpecAuth.                  *)
(***************************************************************************)
AuthDone(p) == areq[p].pc = "done"

AllStrings(a) ==
    IsString(a.loginType) /\ IsString(a.username) /\ IsString(a.password)

\* The submission passes the string check and both field validators.
Dispatched(a) ==
    AllStrings(a) /\ Len(a.username.val) >= 3 /\ Len(a.password.val) >= 6

Echo(a) ==
    [loginType |-> a.loginType, username |-> a.username, password |-> a.password]

ExistsError(a) == Str("User with username " \o a.username.val \o " already exists")

RECURSIVE Join(_)
Join(parts) == IF parts = <<>> THEN "" ELSE Head(parts) \o Join(Tail(parts))

UrlPieces == {"/", "jokes", "https://", "remix.run", "evil.example"}

\* undefined, null, a file entry, and every string of up to MaxUrlParts pieces
UrlInputs ==
    {Undefined, Null, FileEntry} \cup
    {Str(Join(q)) : q \in UNION {[1..k -> UrlPieces] : k \in 0..MaxUrlParts}}

AllowList == {"/jokes", "/", "https://remix.run"}

\* What the redirect-target validator is to return for x.
Allowed(x) == IF IsString(x) /\ x.val \in AllowList THEN x.val ELSE "/jokes"

\* C2: validateUrl returns x itself when x is one of '/jokes', '/' and
\* 'https://remix.run', and '/jokes' for every other x (undefined, null, the
\* empty string, any other string); so the redirect target the login action
\* holds, and the one of every session it establishes, is in the allow-list.
C2_RedirectAllowList ==
    /\ \A x \in UrlInputs :
         validateUrl(x) \in AllowList /\ validateUrl(x) = Allowed(x)
    /\ \A p \in AuthProcs :
         /\ areq[p].redirectTo = Allowed(areq[p].rawRedirect)
         /\ areq[p].resp.session # Undefined =>
               /\ areq[p].resp.location.val \in AllowList
               /\ areq[p].resp.location.val = Allowed(areq[p].rawRedirect)

\* A session was established for a submission whose redirectTo is a foreign
\* URL, and the redirect goes to '/jokes'.
C2_Witness ==
    \E p \in AuthProcs :
        /\ AuthDone(p) /\ areq[p].resp.session # Undefined
        /\ areq[p].rawRedirect = Str("https://evil.example")
        /\ areq[p].resp.location = Str("/jokes")

\* C4: a response carries a session only when it is the 302 of the success
\* path: for "login" the session is that of a stored user with the submitted
\* username and password, returned by login; for "register" it is that of the
\* user this request's register call returned, after an existence check that
\* found nobody.  Every 400 response carries no session.
C4_SessionOnlyOnSuccess ==
    \A p \in AuthProcs :
        LET a == areq[p]
        IN  /\ AuthDone(p) => a.resp.status \in {302, 400}
            /\ ("createUserSession" \in a.calls) <=> (a.resp.session # Undefined)
            /\ AuthDone(p) /\ a.resp.status = 400 =>
                  a.resp.session = Undefined /\ a.user = Null
            /\ a.resp.session # Undefined =>
                  /\ AuthDone(p) /\ a.resp.status = 302 /\ Dispatched(a)
                  /\ a.user # Null /\ a.resp.session = Str(a.user.id)
                  /\ \E i \in 1..Len(users) : users[i] = a.user
                  /\ a.user.username = a.username.val
                  /\ a.user.password = a.password.val
                  /\ \/ /\ a.loginType = Str("login")
                        /\ a.calls = {"login", "createUserSession"}
                     \/ /\ a.loginType = Str("register")
                        /\ a.userExists = Null
                        /\ a.calls = {"findFirst", "register", "createUserSession"}

\* A registration ended with a session for the new user.
C4_Witness ==
    \E p \in AuthProcs :
        /\ AuthDone(p) /\ areq[p].loginType = Str("register")
        /\ areq[p].username = Str("amy")
        /\ areq[p].resp.status = 302 /\ areq[p].resp.session = Str("2")
        /\ Len(users) = 2 /\ users[2].username = "amy"

\* C5: a register submission whose existence check finds a user is answered
\* 400 with the form-level error that the user already exists; the action
\* calls neither register nor createUserSession for it, and the store keeps
\* exactly the users it had.
C5_DuplicateUsername ==
    \A p \in AuthProcs :
        LET a == areq[p]
        IN  /\ a.userExists # Null =>
                  /\ AuthDone(p) /\ a.loginType = Str("register") /\ Dispatched(a)
                  /\ a.userExists.username = a.username.val
                  /\ a.resp = badRequest(ExistsError(a), Undefined, Echo(a))
                  /\ a.calls = {"findFirst"}
                  /\ a.user = Null
            /\ AuthDone(p) /\ a.loginType = Str("register") /\ Dispatched(a)
                 /\ (\E i \in 1..Len(users) :
                        users[i].username = a.username.val /\ users[i] # a.user) =>
                  a.userExists # Null

\* The scenario: register "bob", who exists.
C5_Witness ==
    \E p \in AuthProcs :
        /\ AuthDone(p) /\ areq[p].loginType = Str("register")
        /\ areq[p].username = Str("bob") /\ areq[p].password = Str("secret1")
        /\ areq[p].resp.status = 400
        /\ areq[p].resp.formError = Str("User with username bob already exists")
        /\ users = InitialUsers

\* C8: whatever loginType is, a submission with a non-string loginType,
\* username or password is answered 400 with the form-level error and neither
\* fieldErrors nor fields; otherwise one with username.length < 3 or
\* password.length < 6 is answered 400 with fieldErrors for exactly the
\* failing fields and the submitted loginType, username and password as fields;
\* in both cases no collaborator is called.
C8_ValidationBeforeDispatch ==
    \A p \in AuthProcs :
        LET a == areq[p]
            shortUsername == Len(a.username.val) < 3
            shortPassword == Len(a.password.val) < 6
        IN  /\ AuthDone(p) /\ ~AllStrings(a) =>
                  /\ a.resp = badRequest(Str("Form not submitted correctly."),
                                         Undefined, Undefined)
                  /\ a.calls = {} /\ a.branch = "none"
            /\ AuthDone(p) /\ AllStrings(a) /\ (shortUsername \/ shortPassword) =>
                  /\ a.resp.status = 400 /\ a.resp.formError = Undefined
                  /\ Truthy(a.resp.fieldErrors.username) <=> shortUsername
                  /\ Truthy(a.resp.fieldErrors.password) <=> shortPassword
                  /\ ~shortUsername => a.resp.fieldErrors.username = Undefined
                  /\ ~shortPassword => a.resp.fieldErrors.password = Undefined
                  /\ a.resp.fields = Echo(a)
                  /\ a.resp.session = Undefined
                  /\ a.calls = {} /\ a.branch = "none"
            /\ a.pc # "idle" /\ ~Dispatched(a) => AuthDone(p)

\* A submission with an unknown login type and a short password, and nothing
\* else wrong, was answered with the password's field error alone.
C8_Witness ==
    \E p \in AuthProcs :
        /\ AuthDone(p) /\ areq[p].loginType = Str("signup")
        /\ areq[p].username = Str("bob") /\ areq[p].password = Str("12345")
        /\ areq[p].resp.status = 400
        /\ areq[p].resp.fieldErrors.username = Undefined
        /\ Truthy(areq[p].resp.fieldErrors.password)

\* C9: a submission that passes the string check and the validators takes the
\* Login case iff loginType is "login", the Register case iff it is
\* "register", and the InvalidType case otherwise; InvalidType ends at once in
\* 400 with the form-level error 'Login type invalid' and calls no
\* collaborator; Login calls only login, Register only findFirst and register
\* (and each createUserSession on success).
C9_InvalidLoginType ==
    \A p \in AuthProcs :
        LET a == areq[p]
        IN  a.pc # "idle" /\ Dispatched(a) =>
              /\ a.branch \in {"Login", "Register", "InvalidType"}
              /\ a.branch = "Login" <=> a.loginType = Str("login")
              /\ a.branch = "Register" <=> a.loginType = Str("register")
              /\ a.branch = "InvalidType" =>
                    /\ AuthDone(p)
                    /\ a.resp = badRequest(Str("Login type invalid"), Undefined, Echo(a))
                    /\ a.resp.session = Undefined
                    /\ a.calls = {}
              /\ a.branch = "Login" => a.calls \subseteq {"login", "createUserSession"}
              /\ a.branch = "Register" =>
                    a.calls \subseteq {"findFirst", "register", "createUserSession"}

\* A well-formed submission with loginType "signup" was rejected.
C9_Witness ==
    \E p \in AuthProcs :
        /\ AuthDone(p) /\ areq[p].loginType = Str("signup")
        /\ areq[p].username = Str("amy") /\ areq[p].password = Str("secret1")
        /\ areq[p].resp.status = 400
        /\ areq[p].resp.formError = Str("Login type invalid")

(***************************************************************************)
(* Properties of concurrent login-form submissions, checked under SpecRace.*)
(***************************************************************************)
\* The login attempt of a was answered and found no user.
FailedLogin(p) ==
    AuthDone(p) /\ areq[p].branch = "Login" /\ areq[p].user = Null

\* C6: a login that passes validation and finds no user is answered 400 with
\* the one form-level error 'Username/Password combination is incorrect.' and
\* no fieldErrors; any two failed logins, whether the username is unknown or
\* the password is wrong, have the same status, formError and fieldErrors.
C6_GenericLoginError ==
    /\ \A p \in AuthProcs :
         FailedLogin(p) =>
            /\ areq[p].calls = {"login"}
            /\ areq[p].resp = badRequest(
                  Str("Username/Password combination is incorrect."),
                  Undefined, Echo(areq[p]))
    /\ \A p, q \in AuthProcs :
         FailedLogin(p) /\ FailedLogin(q) =>
            /\ areq[p].resp.status = areq[q].resp.status
            /\ areq[p].resp.formError = areq[q].resp.formError
            /\ areq[p].resp.fieldErrors = areq[q].resp.fieldErrors

\* Two failed logins side by side: an unknown username, and a known username
\* with a wrong password.
C6_Witness ==
    \E p, q \in AuthProcs :
        /\ FailedLogin(p) /\ FailedLogin(q)
        /\ areq[p].username = Str("amy")
        /\ \A i \in 1..Len(users) : users[i].username # "amy"
        /\ areq[q].username = Str("bob") /\ areq[q].password = Str("hunter22")
        /\ \E i \in 1..Len(users) : users[i].username = "bob"
        /\ areq[p].resp.status = 400

\* C10: nothing ties the create call to the existence check.  A request that
\* has passed the check goes on in its next step to call register, whatever
\* the store holds by then, and is never answered "already exists".
C10_CheckThenCreate ==
    [][\A p \in AuthProcs :
          areq[p].pc = "register" /\ areq'[p] # areq[p] =>
             /\ areq[p].userExists = Null /\ areq[p].calls = {"findFirst"}
             /\ "register" \in areq'[p].calls
             /\ areq'[p].resp.formError # ExistsError(areq[p])]_vars

\* Two registrations of one username that was not registered: both called
\* register, none was told the user exists, and the store, which accepted
\* both, holds the username twice.
C10_Witness ==
    \E p, q \in AuthProcs :
        /\ p # q /\ AuthDone(p) /\ AuthDone(q)
        /\ areq[p].username = Str("amy") /\ areq[q].username = Str("amy")
        /\ "register" \in areq[p].calls /\ "register" \in areq[q].calls
        /\ areq[p].resp.session = Str("2") /\ areq[q].resp.session = Str("3")
        /\ Len(users) = 3 /\ users[2].username = "amy" /\ users[3].username = "amy"
====
